---- MODULE Spec2Model ----
(***************************************************************************)
(* The recording session of the screen recorder (App component): the       *)
(* startRecording / pauseRecording / resumeRecording / stopRecording       *)
(* handlers, the MediaRecorder callbacks they install, and the platform    *)
(* objects they drive (media tracks, MediaRecorder, the writable file      *)
(* stream of the File System Access API).                                  *)
(*                                                                         *)
(* One action is one run of JavaScript between two suspension points: a    *)
(* handler up to its first await, or the continuation of an await.         *)
(*                                                                         *)
(* React closures.  startRecording, stopRecording and stopAllStreams are   *)
(* re-created on every render and close over that render's `state`.  The   *)
(* buttons always call the closures of the latest render, but the          *)
(* callbacks installed inside startRecording (track.onended,               *)
(* recorder.onerror, recorder.onstop) keep calling the stopRecording of    *)
(* the render in which startRecording was invoked; capState[i] is the      *)
(* `state` that closure reads.  Refs (xxxRef.current) are always current.  *)
(*                                                                         *)
(* The shared display always carries an audio track.  The camera stream    *)
(* and the notification banner are not part of the state: of the camera    *)
(* only the await at the end of startRecording is modelled.                *)
(*                                                                         *)
(* Spec and FairSpec are the recording session.  HelperSpec runs the two   *)
(* helpers of startRecording, getSupportedMimeType and mergeAudioStreams,  *)
(* statement by statement on inputs drawn from bounded sets; the session   *)
(* stands still in it, as the helpers' variables do in Spec.               *)
(***************************************************************************)
EXTENDS Integers, Sequences, FiniteSets

\* ---- bounds of the model ----
MaxStarts == 2      \* startRecording invocations in one run
MaxChunks == 2      \* non-empty chunks emitted by the encoders alive at one time
MaxTimer  == 1      \* elapsed seconds counted
MaxAudioTracks == 2 \* audio tracks of a stream handed to mergeAudioStreams
MaxVideoTracks == 1 \* video tracks of the desktop stream handed to it
MaxRes      == 2    \* width and height of the screen video, in pixels
MaxViewport == 2    \* window.innerWidth and innerHeight, in pixels
MaxPos      == 1    \* coordinates of the overlay position
MaxFrames   == 3    \* animation frames requested from one compositor
MaxLen      == 3    \* length of a recording in the preview, in half seconds
MaxTrims    == 2    \* saveTrim invocations in one run

Inv == 1..MaxStarts

VARIABLES
  \* React state and refs of App
  state,              \* RecorderState: "IDLE" | "RECORDING" | "PAUSED"
  isSelecting,        \* selection guide shown
  error,              \* user-visible error is non-null
  timer,              \* elapsed seconds
  timerRef,           \* timerIntervalRef: "running", or "off" (null, or the id of a cleared interval)
  mediaRecorderRef,   \* invocation whose encoder the ref holds, 0 = null
  streamRef,          \* invocation whose combined stream the ref holds, 0 = null
  writableStreamRef,  \* invocation whose writable stream the ref holds, 0 = null
  chunksRef,          \* the in-memory buffer, a sequence of chunks
  \* platform
  hasPicker,          \* 'showSaveFilePicker' in window
  \* startRecording invocations, numbered in invocation order
  started,            \* number of invocations so far
  pc,                 \* where invocation i is suspended, or how it returned (Returned)
  capState,           \* `state` read by the closures of invocation i
  track,              \* track[i][k]: "none" | "live" | "ended", k in Kinds;
                      \* "denied": the microphone was requested and not obtained
  rec,                \* encoder of invocation i
  emitted,            \* non-empty chunks encoder i has emitted
  sink,               \* writable stream created by invocation i
  wq,                 \* chunks whose write on sink i is pending, oldest first
  closer,             \* invocation whose onstop awaits close() of sink i, 0 = none
  disk,               \* chunks written to the file of sink i
  fin,                \* onstop of encoder i: "no" | "closing" (awaits close) | "done"
  artifact,           \* the file or download the last onstop produced, and for which encoder
  \* getSupportedMimeType
  supported,          \* the formats MediaRecorder.isTypeSupported accepts
  typeIdx,            \* position of the loop in `types`, 0 = not running
  mimeType,           \* the value returned, "" before the return
  \* mergeAudioStreams
  ctx,                \* the AudioContext: its state, and the promise of resume()
  desktopStream,      \* [null, audio, video]: the argument and the number of its tracks
  voiceStream,        \* likewise; null for no microphone
  connectThrows,      \* the inputs whose createMediaStreamSource / connect throws
  mergePc,            \* next statement: "off" | "resume" | "desktop" | "voice" |
                      \* "returned" | "threw"
  connected,          \* the inputs connected to dest so far
  combined,           \* the tracks of the stream returned, by kind
  \* the encoder startRecording builds on the stream returned
  showCamera,         \* settings.showCamera
  cameraStream,       \* the camera stream of App: "none" (null) | "live"
  recorderStream,     \* the tracks given to new MediaRecorder: the source of
                      \* its video ("none" | "display" | "canvas"), its audio tracks
  cameraReq,          \* the callers whose initializeCamera awaits getUserMedia:
                      \* "start" (startRecording), "toggle" (toggleCamera)
  \* VideoCompositor
  compositor,         \* the fields of the object: ctx (is not null), canvasWidth,
                      \* canvasHeight, animationId, srcObject (screenVideo has its stream)
  frames,             \* requestAnimationFrame: the ids still requested, the next id
  drawn,              \* what the last draw() saw and painted
  stopped,            \* stop() has been called
  \* Preview (times in half seconds)
  media,              \* the prop: duration of the artifact, and how many it replaced
  video,              \* the video element: len (what it can play), reports (its
                      \* duration attribute), currentTime, paused, seek, loaded,
                      \* onseeked (the invocation whose resolver it holds, 0 = none)
  view,               \* React state: isEditing, isProcessing, isPlaying, trimStart,
                      \* trimEnd, duration
  trims,              \* number of saveTrim invocations so far
  job,                \* saveTrim invocation j: pc, the trimStart and trimEnd of its
                      \* closures, its encoder, its chunks, stopHandler registered
  delivered           \* the artifacts passed to onUpdateMedia, in order

appVars  == <<state, isSelecting, error, timer, timerRef, mediaRecorderRef,
              streamRef, writableStreamRef, chunksRef>>
invVars  == <<started, pc, capState, track, rec, emitted>>
sinkVars == <<sink, wq, closer, disk>>
endVars  == <<fin, artifact>>
sessionVars == <<appVars, hasPicker, invVars, sinkVars, endVars>>
mergeVars == <<ctx, desktopStream, voiceStream, connectThrows, mergePc, connected,
               combined>>
bindVars == <<showCamera, cameraStream, recorderStream, cameraReq>>
helperVars == <<supported, typeIdx, mimeType, mergeVars, bindVars>>
compositorVars == <<compositor, frames, drawn, stopped>>
previewVars == <<media, video, view, trims, job, delivered>>
vars == <<sessionVars, helperVars, compositorVars, previewVars>>

\* the size of a canvas element as created
CanvasWidth == 300
CanvasHeight == 150

Kinds == {"dv", "da", "mic", "mix"}   \* display video, display audio, microphone, mixed audio
Chunk(i, k) == <<i, k>>
NoArtifact == [of |-> 0, kind |-> "none", data |-> <<>>]
NoStream == [null |-> TRUE, audio |-> 0, video |-> 0]

\* no tracks
NoTracks == [video |-> 0, audio |-> 0]

\* no encoder built
Unbound == [video |-> "none", audio |-> 0]

\* an AudioContext on which resume() has not been called
Running == [state |-> "running", resume |-> "none"]

\* the session after the first render of App
AppInit ==
  /\ state = "IDLE" /\ isSelecting = FALSE /\ error = FALSE
  /\ timer = 0 /\ timerRef = "off"
  /\ mediaRecorderRef = 0 /\ streamRef = 0 /\ writableStreamRef = 0
  /\ chunksRef = <<>>
  /\ hasPicker \in BOOLEAN
  /\ started = 0
  /\ pc = [i \in Inv |-> "new"]
  /\ capState = [i \in Inv |-> "IDLE"]
  /\ track = [i \in Inv |-> [k \in Kinds |-> "none"]]
  /\ rec = [i \in Inv |-> "none"]
  /\ emitted = [i \in Inv |-> 0]
  /\ sink = [i \in Inv |-> "none"]
  /\ wq = [i \in Inv |-> <<>>]
  /\ closer = [i \in Inv |-> 0]
  /\ disk = [i \in Inv |-> <<>>]
  /\ fin = [i \in Inv |-> "no"]
  /\ artifact = NoArtifact

\* no helper is running
HelpersOff ==
  /\ supported = {} /\ typeIdx = 0 /\ mimeType = ""
  /\ ctx = Running
  /\ desktopStream = NoStream /\ voiceStream = NoStream /\ connectThrows = {}
  /\ mergePc = "off" /\ connected = {} /\ combined = NoTracks
  /\ showCamera = FALSE /\ cameraStream = "none" /\ recorderStream = Unbound
  /\ cameraReq = {}

\* nothing painted yet
NoDraw == [painted |-> FALSE]

\* no compositor constructed
CompositorOff ==
  /\ compositor = [made |-> FALSE]
  /\ frames = [pending |-> {}, next |-> 1]
  /\ drawn = NoDraw
  /\ stopped = FALSE

\* a saveTrim that was not invoked
NoJob == [pc |-> "none", start |-> 0, end |-> 0, rec |-> "none", chunks |-> <<>>,
          listening |-> FALSE]

\* no preview mounted
PreviewOff ==
  /\ media = [duration |-> 0, version |-> 0, chunks |-> <<>>, type |-> ""]
  /\ video = [len |-> 0, reports |-> "none", currentTime |-> 0, paused |-> TRUE,
              seek |-> "idle", loaded |-> FALSE, onseeked |-> 0]
  /\ view = [isEditing |-> FALSE, isProcessing |-> FALSE, isPlaying |-> FALSE,
             trimStart |-> 0, trimEnd |-> 0, duration |-> 0]
  /\ trims = 0
  /\ job = [j \in 1..MaxTrims |-> NoJob]
  /\ delivered = <<>>

Init == AppInit /\ HelpersOff /\ CompositorOff /\ PreviewOff

HelpersStay == UNCHANGED <<helperVars, compositorVars, previewVars>>

\* ---- helpers ----

DisplayTracks  == {"dv", "da"}     \* displayStream.getTracks()
CombinedTracks == {"dv", "mix"}    \* tracks of the stream mergeAudioStreams returns
Arming == {"picker", "writable", "mic"}
\* how startRecording has returned: normally ("done"), after the user
\* cancelled the save dialog or refused the display ("cancelled"), or after
\* another exception reached the outer catch ("threw")
Returned == {"done", "cancelled", "threw"}
Active == {"recording", "paused"}  \* MediaRecorder.state other than 'inactive'

\* a stop() that ends a track whatever its state, one already ended or not held
\* included
stopTracksUnchecked(tr, i, ks) ==
  [tr EXCEPT ![i] = [k \in Kinds |-> IF k \in ks THEN "ended" ELSE @[k]]]

\* track.stop() on the tracks ks of invocation i
stopTracks(tr, i, ks) ==
  [tr EXCEPT ![i] = [k \in Kinds |-> IF k \in ks /\ @[k] = "live" THEN "ended" ELSE @[k]]]

\* clearInterval(timerIntervalRef.current)
clearTimer(r) == "off"

\* stopAllStreams, the tracks of streamRef.current
stopAllStreams(tr, sref) == IF sref = 0 THEN tr ELSE stopTracks(tr, sref, CombinedTracks)

\* stopRecording reading the `state` of the latest render instead of the one
\* its closure captured
stopRecordingLatest(s, tr, rc) ==
  IF mediaRecorderRef # 0 /\ state \in {"RECORDING", "PAUSED"}
  THEN /\ rec' = [rc EXCEPT ![mediaRecorderRef] = IF @ \in Active THEN "stopping" ELSE @]
       /\ timerRef' = clearTimer(timerRef)
       /\ track' = tr
       /\ state' = state
  ELSE /\ track' = stopAllStreams(tr, streamRef)
       /\ timerRef' = clearTimer(timerRef)
       /\ state' = "IDLE"
       /\ rec' = rc

\* stopRecording as run by a closure that reads `state` as s; tr and rc are the
\* tracks and encoders its caller has reached
stopRecording(s, tr, rc) ==
  IF mediaRecorderRef # 0 /\ s \in {"RECORDING", "PAUSED"}
  THEN /\ rec' = [rc EXCEPT ![mediaRecorderRef] = IF @ \in Active THEN "stopping" ELSE @]
       /\ timerRef' = clearTimer(timerRef)
       /\ track' = tr
       /\ state' = state
  ELSE /\ track' = stopAllStreams(tr, streamRef)
       /\ timerRef' = clearTimer(timerRef)
       /\ state' = "IDLE"
       /\ rec' = rc

\* ---- startRecording ----

\* an outer catch that reports every exception
userCancelledNever(r) == FALSE

\* the test of the outer catch on the exception r: a permission error, which is
\* how a refusal by the user arrives, is not reported
userCancelled(r) == r = "denied"

\* the user-visible error after the outer catch has handled the exception r
catchError(r, e) == IF userCancelled(r) THEN e ELSE TRUE

\* the start button: reachable with the pointer while the main container is
\* shown, and not while the save dialog, which is modal, is open
StartEnabled == state = "IDLE" /\ ~isSelecting /\ \A i \in Inv : pc[i] # "picker"

\* up to the await of getDisplayMedia
StartRecording ==
  /\ started < MaxStarts
  /\ StartEnabled
  /\ LET i == started + 1 IN
     /\ started' = i
     /\ pc' = [pc EXCEPT ![i] = "display"]
     /\ capState' = [capState EXCEPT ![i] = state]
  /\ error' = FALSE
  /\ writableStreamRef' = 0
  /\ chunksRef' = <<>>
  /\ isSelecting' = TRUE
  /\ UNCHANGED <<state, timer, timerRef, mediaRecorderRef, streamRef, hasPicker,
                 track, rec, emitted, sinkVars, endVars>>

\* steps 4 and 5 of startRecording, with its catch: from mergeAudioStreams to the
\* end of the function.  tr and sel are the tracks and isSelecting reached so far.
Build(i, tr, sel) ==
  LET tr1 == [tr EXCEPT ![i]["mix"] = "live"] IN
  /\ streamRef' = i
  /\ IF tr1[i]["dv"] # "live" /\ tr1[i]["mix"] # "live"
     THEN \* !combinedStream.active
          /\ pc' = [pc EXCEPT ![i] = "done"]
          /\ track' = tr1 /\ isSelecting' = sel
          /\ UNCHANGED <<rec, mediaRecorderRef, timer, timerRef, state, error>>
     ELSE \E outcome \in {"ok", "ctorThrows", "startThrows"} :
          IF outcome = "ok"
          THEN /\ \E initCamera \in BOOLEAN :   \* settings.showCamera && !cameraStream
                    pc' = [pc EXCEPT ![i] = IF initCamera THEN "camera" ELSE "done"]
               /\ rec' = [rec EXCEPT ![i] = "recording"]
               /\ mediaRecorderRef' = i
               /\ timer' = 0
               /\ timerRef' = "running"
               /\ state' = "RECORDING"
               /\ track' = tr1 /\ isSelecting' = sel
               /\ UNCHANGED <<error>>
          ELSE /\ pc' = [pc EXCEPT ![i] = "threw"]
               /\ track' = stopTracks(tr1, i, DisplayTracks)
               /\ isSelecting' = FALSE
               /\ error' = catchError(outcome, error)
               /\ rec' = IF outcome = "startThrows" THEN [rec EXCEPT ![i] = "unstarted"] ELSE rec
               /\ UNCHANGED <<mediaRecorderRef, timer, timerRef, state>>

\* step 3: the microphone, when enabled.  settings.enableMic is the value of the
\* render in which startRecording was invoked; nothing reads it before this
\* point, so it is drawn here
AfterPicker(i, tr, sel) ==
  \E enableMic \in BOOLEAN :
  IF enableMic
  THEN /\ pc' = [pc EXCEPT ![i] = "mic"]
       /\ track' = tr /\ isSelecting' = sel
       /\ UNCHANGED <<streamRef, rec, mediaRecorderRef, timer, timerRef, state, error>>
  ELSE Build(i, tr, sel)

\* getDisplayMedia settles
DisplayResolve(i) ==
  /\ pc[i] = "display"
  /\ \E r \in {"granted", "denied", "failed"} :
       IF r \in {"denied", "failed"}
       THEN /\ pc' = [pc EXCEPT ![i] = IF r = "failed" THEN "threw" ELSE "cancelled"]
            /\ isSelecting' = FALSE
            /\ error' = catchError(r, error)
            /\ UNCHANGED <<track, streamRef, rec, mediaRecorderRef, timer, timerRef, state>>
       ELSE LET tr == [track EXCEPT ![i]["dv"] = "live", ![i]["da"] = "live"] IN
            IF hasPicker
            THEN /\ pc' = [pc EXCEPT ![i] = "picker"]
                 /\ track' = tr /\ isSelecting' = FALSE
                 /\ UNCHANGED <<streamRef, rec, mediaRecorderRef, timer, timerRef, state, error>>
            ELSE AfterPicker(i, tr, FALSE)
  /\ UNCHANGED <<writableStreamRef, chunksRef, hasPicker, started, capState,
                 emitted, sinkVars, fin, artifact>>

\* showSaveFilePicker settles
PickerResolve(i) ==
  /\ pc[i] = "picker"
  /\ \E r \in {"handle", "abort", "error"} :
       CASE r = "handle" ->
              /\ pc' = [pc EXCEPT ![i] = "writable"]
              /\ UNCHANGED <<track, isSelecting, streamRef, rec, mediaRecorderRef, timer,
                             timerRef, state, error>>
         [] r = "abort" ->
              /\ pc' = [pc EXCEPT ![i] = "cancelled"]
              /\ track' = stopTracks(track, i, DisplayTracks)
              /\ UNCHANGED <<isSelecting, streamRef, rec, mediaRecorderRef, timer,
                             timerRef, state, error>>
         [] r = "error" -> AfterPicker(i, track, isSelecting)
  /\ UNCHANGED <<writableStreamRef, chunksRef, hasPicker, started, capState,
                 emitted, sinkVars, fin, artifact>>

\* handle.createWritable settles
WritableResolve(i) ==
  /\ pc[i] = "writable"
  /\ \E r \in {"stream", "abort", "error"} :
       /\ writableStreamRef' = IF r = "stream" THEN i ELSE writableStreamRef
       /\ sink' = IF r = "stream" THEN [sink EXCEPT ![i] = "open"] ELSE sink
       /\ IF r = "abort"
          THEN /\ pc' = [pc EXCEPT ![i] = "cancelled"]
               /\ track' = stopTracks(track, i, DisplayTracks)
               /\ UNCHANGED <<isSelecting, streamRef, rec, mediaRecorderRef, timer,
                              timerRef, state, error>>
          ELSE AfterPicker(i, track, isSelecting)
  /\ UNCHANGED <<chunksRef, hasPicker, started, capState, emitted,
                 wq, closer, disk, fin, artifact>>

\* the inputs mergeAudioStreams connects to the mix of invocation i: those of the
\* display stream and the microphone stream that carry an audio track (no
\* connection throws here)
mixInputs(tr, i) == {k \in {"da", "mic"} : tr[i][k] \in {"live", "ended"}}

\* a microphone failure that is not caught where it happens: it reaches the
\* outer catch as a permission error
micCatchRethrow(i, tr, sel) ==
  /\ pc' = [pc EXCEPT ![i] = "cancelled"]
  /\ track' = stopTracks(tr, i, DisplayTracks)
  /\ isSelecting' = FALSE
  /\ error' = catchError("denied", error)
  /\ UNCHANGED <<streamRef, rec, mediaRecorderRef, timer, timerRef, state>>

\* the catch around getUserMedia: the failure is logged, micStream stays null
\* and startRecording goes on
micCatch(i, tr, sel) == Build(i, tr, sel)

\* getUserMedia for the microphone settles
MicResolve(i) ==
  /\ pc[i] = "mic"
  /\ \E ok \in BOOLEAN :
       IF ok THEN Build(i, [track EXCEPT ![i]["mic"] = "live"], isSelecting)
       ELSE micCatch(i, [track EXCEPT ![i]["mic"] = "denied"], isSelecting)
  /\ UNCHANGED <<writableStreamRef, chunksRef, hasPicker, started, capState,
                 emitted, sinkVars, fin, artifact>>

\* initializeCamera, awaited at the end of startRecording, settles.  It catches
\* its own failure, so startRecording returns normally either way.
CameraResolve(i) ==
  /\ pc[i] = "camera"
  /\ \E ok \in BOOLEAN : pc' = [pc EXCEPT ![i] = "done"]
  /\ UNCHANGED <<appVars, hasPicker, started, capState, track, rec, emitted,
                 sinkVars, endVars>>


\* ---- the encoder and its callbacks ----

RECURSIVE Sum(_, _)
Sum(f, n) == IF n = 0 THEN 0 ELSE f[n] + Sum(f, n - 1)
MayEmit == Sum(emitted, MaxStarts) < MaxChunks

\* the write of ondataavailable stays pending only on a writable stream that is
\* neither errored nor closing; on any other it rejects at once
WritePends == /\ writableStreamRef # 0
              /\ sink[writableStreamRef] = "open"
              /\ closer[writableStreamRef] = 0

\* a catch of ondataavailable that only logs the write error
writeCatchLogOnly(ch, q) == ch

\* the catch of ondataavailable for the rejected writes of the chunks q, oldest first
writeCatch(ch, q) == ch \o q

\* recorder.ondataavailable for a non-empty chunk c: the pending writes and the
\* in-memory buffer after it
dataWq(c, q) == IF WritePends THEN [q EXCEPT ![writableStreamRef] = Append(@, c)] ELSE q

\* an ondataavailable that starts to buffer with the second chunk of an encoder
dataChunksFromSecond(c, ch) ==
  IF writableStreamRef = 0 THEN (IF c[2] = 1 THEN ch ELSE Append(ch, c))
  ELSE IF WritePends THEN ch
  ELSE writeCatch(ch, <<c>>)

dataChunks(c, ch) == IF writableStreamRef = 0 THEN Append(ch, c)
                     ELSE IF WritePends THEN ch
                     ELSE writeCatch(ch, <<c>>)

\* the encoder of invocation i delivers a timeslice
Emit(i) ==
  /\ rec[i] = "recording"
  /\ MayEmit
  /\ LET c == Chunk(i, emitted[i] + 1) IN
     /\ emitted' = [emitted EXCEPT ![i] = @ + 1]
     /\ wq' = dataWq(c, wq)
     /\ chunksRef' = dataChunks(c, chunksRef)
  /\ UNCHANGED <<state, isSelecting, error, timer, timerRef, mediaRecorderRef, streamRef,
                 writableStreamRef, hasPicker, started, pc, capState, track, rec,
                 sink, closer, disk, fin, artifact>>

\* a catch of onstop that assembles the backup without the oldest buffered chunk
catchSaveSkipFirst(i, ch) ==
  IF ch # <<>> THEN [of |-> i, kind |-> "backup", data |-> Tail(ch)] ELSE NoArtifact

\* the artifact the catch of onstop assembles from the buffer ch
catchSave(i, ch) ==
  IF ch # <<>> THEN [of |-> i, kind |-> "backup", data |-> ch] ELSE NoArtifact

\* the file a successful close() of onstop commits: the chunks written to it
diskSave(i, d) == [of |-> i, kind |-> "disk", data |-> d]

\* the artifact the else-if of onstop assembles from the buffer ch
blobSave(i, ch) ==
  IF ch # <<>> THEN [of |-> i, kind |-> "blob", data |-> ch] ELSE NoArtifact

\* an end of onstop that leaves the elapsed time as it is
onstopTailKeepTimer(i) ==
  /\ state' = "IDLE"
  /\ track' = stopAllStreams(track, streamRef)
  /\ timerRef' = clearTimer(timerRef)
  /\ timer' = timer
  /\ isSelecting' = FALSE
  /\ fin' = [fin EXCEPT ![i] = "done"]

\* the end of onstop, after its try/catch
onstopTail(i) ==
  /\ state' = "IDLE"
  /\ track' = stopAllStreams(track, streamRef)
  /\ timerRef' = clearTimer(timerRef)
  /\ timer' = 0
  /\ isSelecting' = FALSE
  /\ fin' = [fin EXCEPT ![i] = "done"]

AllEnded(i) == \A k \in CombinedTracks : track[i][k] # "live"

\* the task that ends a recording: the last dataavailable (with a chunk or with
\* none), then stop; onstop runs up to its await of close(), or to its end
FireStop(i) ==
  /\ \/ rec[i] \in {"stopping", "failed"}
     \/ rec[i] \in Active /\ AllEnded(i)
  /\ \E last \in BOOLEAN :
       /\ last => MayEmit
       /\ LET c   == Chunk(i, emitted[i] + 1)
              ch1 == IF last THEN dataChunks(c, chunksRef) ELSE chunksRef
              w   == writableStreamRef
          IN
          /\ emitted' = IF last THEN [emitted EXCEPT ![i] = @ + 1] ELSE emitted
          /\ wq' = IF last THEN dataWq(c, wq) ELSE wq
          /\ chunksRef' = ch1
          /\ rec' = [rec EXCEPT ![i] = "inactive"]
          /\ IF w # 0 /\ sink[w] = "open" /\ closer[w] = 0
             THEN /\ closer' = [closer EXCEPT ![w] = i]
                  /\ fin' = [fin EXCEPT ![i] = "closing"]
                  /\ UNCHANGED <<state, track, timerRef, timer, isSelecting, artifact>>
             ELSE /\ artifact' = IF w # 0 THEN catchSave(i, ch1) ELSE blobSave(i, ch1)
                  /\ onstopTail(i)
                  /\ UNCHANGED closer
  /\ UNCHANGED <<error, mediaRecorderRef, streamRef, writableStreamRef, hasPicker,
                 started, pc, capState, sink, disk>>

\* the encoder fails: it becomes inactive and onerror runs
RecorderError(i) ==
  /\ rec[i] \in Active
  /\ error' = TRUE
  /\ stopRecording(capState[i], track, [rec EXCEPT ![i] = "failed"])
  /\ UNCHANGED <<isSelecting, timer, mediaRecorderRef, streamRef, writableStreamRef,
                 chunksRef, hasPicker, started, pc, capState, emitted, sinkVars,
                 fin, artifact>>

\* the user stops sharing: the display tracks end and onended of the video track runs
DisplayEnded(i) ==
  /\ track[i]["dv"] = "live"
  /\ stopRecording(capState[i], stopTracks(track, i, DisplayTracks), rec)
  /\ UNCHANGED <<isSelecting, error, timer, mediaRecorderRef, streamRef, writableStreamRef,
                 chunksRef, hasPicker, started, pc, capState, emitted, sinkVars,
                 fin, artifact>>

\* ---- the writable file stream ----

\* the stream settles its oldest pending request: a write, or the close once no
\* write is pending.  A failed request errors the stream, which rejects every
\* request still pending, oldest first; each rejected write runs the catch of
\* ondataavailable, a settled close resumes onstop.
SinkStep(j) ==
  /\ sink[j] = "open"
  /\ wq[j] # <<>> \/ closer[j] # 0
  /\ \E ok \in BOOLEAN :
       IF wq[j] # <<>> /\ ok
       THEN /\ disk' = [disk EXCEPT ![j] = Append(@, Head(wq[j]))]
            /\ wq' = [wq EXCEPT ![j] = Tail(@)]
            /\ UNCHANGED <<sink, closer, chunksRef, writableStreamRef, artifact,
                           state, track, timerRef, timer, isSelecting, fin>>
       ELSE IF wq[j] # <<>>
       THEN LET ch1 == writeCatch(chunksRef, wq[j]) IN
            /\ sink' = [sink EXCEPT ![j] = "errored"]
            /\ wq' = [wq EXCEPT ![j] = <<>>]
            /\ chunksRef' = ch1
            /\ closer' = [closer EXCEPT ![j] = 0]
            /\ IF closer[j] # 0
               THEN /\ artifact' = catchSave(closer[j], ch1)
                    /\ onstopTail(closer[j])
               ELSE UNCHANGED <<artifact, state, track, timerRef, timer, isSelecting, fin>>
            /\ UNCHANGED <<disk, writableStreamRef>>
       ELSE /\ sink' = [sink EXCEPT ![j] = IF ok THEN "closed" ELSE "closeFailed"]
            /\ closer' = [closer EXCEPT ![j] = 0]
            /\ writableStreamRef' = IF ok THEN 0 ELSE writableStreamRef
            /\ artifact' = IF ok THEN diskSave(closer[j], disk[j])
                           ELSE catchSave(closer[j], chunksRef)
            /\ onstopTail(closer[j])
            /\ UNCHANGED <<wq, disk, chunksRef>>
  /\ UNCHANGED <<error, mediaRecorderRef, streamRef, hasPicker, started, pc, capState,
                 rec, emitted>>

\* ---- the floating controls ----

\* the controls are rendered while state is RECORDING or PAUSED
ControlsShown == state \in {"RECORDING", "PAUSED"}

StopRecording ==
  /\ ControlsShown
  /\ stopRecording(state, track, rec)
  /\ UNCHANGED <<isSelecting, error, timer, mediaRecorderRef, streamRef, writableStreamRef,
                 chunksRef, hasPicker, started, pc, capState, emitted, sinkVars,
                 fin, artifact>>

\* a pauseRecording that leaves the interval running
pauseRecordingKeepTimer(s) ==
  IF mediaRecorderRef # 0 /\ s = "RECORDING" /\ rec[mediaRecorderRef] \in Active
  THEN /\ rec' = [rec EXCEPT ![mediaRecorderRef] = "paused"]
       /\ timerRef' = timerRef
       /\ state' = "PAUSED"
  ELSE UNCHANGED <<rec, timerRef, state>>

\* pauseRecording as run by a closure that reads `state` as s.  pause() throws
\* on an inactive encoder: the handler ends there
pauseRecording(s) ==
  IF mediaRecorderRef # 0 /\ s = "RECORDING" /\ rec[mediaRecorderRef] \in Active
  THEN /\ rec' = [rec EXCEPT ![mediaRecorderRef] = "paused"]
       /\ timerRef' = clearTimer(timerRef)
       /\ state' = "PAUSED"
  ELSE UNCHANGED <<rec, timerRef, state>>

\* the pause/resume button of the controls calls onPause while state is RECORDING
PauseRecording ==
  /\ ControlsShown /\ state = "RECORDING"
  /\ pauseRecording(state)
  /\ UNCHANGED <<isSelecting, error, timer, mediaRecorderRef, streamRef, writableStreamRef,
                 chunksRef, hasPicker, started, pc, capState, track, emitted,
                 sinkVars, endVars>>

\* startTimer
startTimer(r) == "running"

\* resumeRecording as run by a closure that reads `state` as s.  resume()
\* throws on an inactive encoder: the handler ends there
resumeRecording(s) ==
  IF mediaRecorderRef # 0 /\ s = "PAUSED" /\ rec[mediaRecorderRef] \in Active
  THEN /\ rec' = [rec EXCEPT ![mediaRecorderRef] = "recording"]
       /\ timerRef' = startTimer(timerRef)
       /\ state' = "RECORDING"
  ELSE UNCHANGED <<rec, timerRef, state>>

\* and onResume otherwise
ResumeRecording ==
  /\ ControlsShown /\ state # "RECORDING"
  /\ resumeRecording(state)
  /\ UNCHANGED <<isSelecting, error, timer, mediaRecorderRef, streamRef, writableStreamRef,
                 chunksRef, hasPicker, started, pc, capState, track, emitted,
                 sinkVars, endVars>>

\* the interval callback of startTimer
Tick ==
  /\ timerRef = "running"
  /\ timer < MaxTimer
  /\ timer' = timer + 1
  /\ UNCHANGED <<state, isSelecting, error, timerRef, mediaRecorderRef, streamRef,
                 writableStreamRef, chunksRef, hasPicker, invVars, sinkVars, endVars>>

\* ---- dropping what is unreachable ----

\* onstop of encoder i has run to its end
Finalized(i) == fin[i] = "done"

\* invocation i has returned, its encoder (if any) is inactive for good and its
\* display is no longer shared: no handler of i can run again
Finished(i) ==
  /\ pc[i] \in Returned
  /\ rec[i] \in {"none", "unstarted"} \/ (rec[i] = "inactive" /\ fin[i] # "closing")
  /\ track[i]["dv"] # "live"

\* the writable stream j settles nothing more and no ref holds it
Unreachable(j) ==
  /\ sink[j] # "none"
  /\ writableStreamRef # j /\ wq[j] = <<>> /\ closer[j] = 0

\* a failed encoder and a stream whose close failed behave from now on as a
\* stopped encoder and an errored stream
Settled(i) == rec[i] = "failed" \/ sink[i] = "closeFailed"

\* the microphone stream is a local of startRecording that nothing reads after
\* mergeAudioStreams: from then on only the audio graph holds its track and no
\* handler can reach it
Unreferenced(i) == pc[i] \in Returned \cup {"camera"} /\ track[i]["mic"] # "none"

\* the continuation of the camera await changes nothing a handler reads: it
\* is taken before anything else runs
Returning(i) == pc[i] = "camera"

Busy == \E i \in Inv : \/ Finalized(i) \/ Finished(i) \/ Unreachable(i)
                        \/ Settled(i) \/ Unreferenced(i) \/ Returning(i)

\* what no handler can read any more is dropped before anything else runs: the
\* output handed over by an onstop that has ended, the audio tracks nothing
\* references after it, the record of a finished invocation and of an
\* unreachable stream
Retire ==
  /\ Busy
  /\ pc' = [i \in Inv |-> IF Finished(i) THEN "retired" ELSE pc[i]]
  /\ rec' = [i \in Inv |-> IF Finished(i) THEN "none"
                            ELSE IF rec[i] = "failed" THEN "stopping" ELSE rec[i]]
  /\ track' = [i \in Inv |->
                 IF Finished(i) THEN [k \in Kinds |-> "none"]
                 ELSE [k \in Kinds |->
                        IF k = "mic" \/ (k = "da" /\ Finalized(i)) THEN "none"
                        ELSE track[i][k]]]
  /\ emitted' = [i \in Inv |-> IF Finalized(i) \/ Finished(i) THEN 0 ELSE emitted[i]]
  /\ fin' = [i \in Inv |-> IF Finalized(i) THEN "no" ELSE fin[i]]
  /\ artifact' = NoArtifact
  /\ sink' = [j \in Inv |-> IF Unreachable(j) THEN "none"
                             ELSE IF sink[j] = "closeFailed" THEN "errored" ELSE sink[j]]
  /\ disk' = [j \in Inv |-> IF Unreachable(j) THEN <<>> ELSE disk[j]]
  /\ UNCHANGED <<appVars, hasPicker, started, capState, wq, closer>>

Next ==
  \/ Retire /\ HelpersStay
  \/ ~Busy /\ StartRecording /\ HelpersStay
  \/ ~Busy /\ \E i \in Inv : DisplayResolve(i) /\ HelpersStay
  \/ ~Busy /\ \E i \in Inv : PickerResolve(i) /\ HelpersStay
  \/ ~Busy /\ \E i \in Inv : WritableResolve(i) /\ HelpersStay
  \/ ~Busy /\ \E i \in Inv : MicResolve(i) /\ HelpersStay
  \/ \E i \in Inv : CameraResolve(i) /\ HelpersStay
  \/ ~Busy /\ \E i \in Inv : Emit(i) /\ HelpersStay
  \/ ~Busy /\ \E i \in Inv : FireStop(i) /\ HelpersStay
  \/ ~Busy /\ \E i \in Inv : RecorderError(i) /\ HelpersStay
  \/ ~Busy /\ \E i \in Inv : DisplayEnded(i) /\ HelpersStay
  \/ ~Busy /\ \E j \in Inv : SinkStep(j) /\ HelpersStay
  \/ ~Busy /\ StopRecording /\ HelpersStay
  \/ ~Busy /\ PauseRecording /\ HelpersStay
  \/ ~Busy /\ ResumeRecording /\ HelpersStay
  \/ ~Busy /\ Tick /\ HelpersStay

Spec == Init /\ [][Next]_vars

\* The event loop runs the tasks it has queued and the requests made to a
\* writable stream settle: while one of these steps is possible, one is taken.
\* So is the continuation of the camera await, which holds back no task.
FairSpec ==
  /\ Spec
  /\ WF_vars(/\ \/ Retire
                \/ \E i \in Inv : CameraResolve(i)
                \/ ~Busy /\ \E i \in Inv : FireStop(i) \/ SinkStep(i)
             /\ HelpersStay)


\* ---- getSupportedMimeType ----

\* the preference list of getSupportedMimeType
types == << "video/webm;codecs=vp9,opus", "video/webm;codecs=vp8,opus",
            "video/webm", "video/mp4" >>

\* the formats a platform may support: those probed and one that is not
Formats == {types[k] : k \in 1..Len(types)} \cup {"video/x-matroska;codecs=avc1"}

\* a fallback that is not the baseline
fallbackMp4 == "video/mp4"

\* the value returned when the loop ends without a supported entry
fallback == "video/webm"

\* MediaRecorder.isTypeSupported(type)
isTypeSupported(type) == type \in supported

\* startRecording calls getSupportedMimeType once mergeAudioStreams has returned
Merged == mergePc = "returned"

\* one iteration of the loop: return the entry if it is supported, else go on
ProbeType ==
  /\ Merged
  /\ typeIdx \in 1..Len(types) /\ mimeType = ""
  /\ IF isTypeSupported(types[typeIdx])
     THEN mimeType' = types[typeIdx] /\ typeIdx' = typeIdx
     ELSE typeIdx' = typeIdx + 1 /\ mimeType' = mimeType
  /\ UNCHANGED <<supported, mergeVars, bindVars>>

\* the return after the loop
Fallback ==
  /\ Merged
  /\ typeIdx = Len(types) + 1 /\ mimeType = ""
  /\ mimeType' = fallback
  /\ UNCHANGED <<supported, typeIdx, mergeVars, bindVars>>

\* ---- mergeAudioStreams ----

\* a connection whose exception is not caught
connectUncaught(stream, throws) ==
  IF stream.audio = 0 THEN "skip" ELSE IF throws THEN "uncaught" ELSE "connect"

\* what the body of `if (stream.getAudioTracks().length > 0) try {...} catch`
\* does with a stream that is not null
connect(stream, throws) ==
  IF stream.audio = 0 THEN "skip" ELSE IF throws THEN "caught" ELSE "connect"

\* `if (ctx.state === 'suspended') ctx.resume().catch(...)`: the promise is
\* left pending and the function goes on
ResumeCtx ==
  /\ mergePc = "resume"
  /\ ctx' = IF ctx.state = "suspended" THEN [ctx EXCEPT !.resume = "pending"] ELSE ctx
  /\ mergePc' = "desktop"
  /\ UNCHANGED <<supported, typeIdx, mimeType, desktopStream, voiceStream, connectThrows,
                 connected, combined, bindVars>>

\* the promise of resume() settles: fulfilled, the context runs; rejected, the
\* handler given to catch() logs a warning
ResumeSettle ==
  /\ ctx.resume = "pending"
  /\ \E ok \in BOOLEAN :
       ctx' = IF ok THEN [state |-> "running", resume |-> "resolved"]
                   ELSE [ctx EXCEPT !.resume = "rejected"]
  /\ UNCHANGED <<supported, typeIdx, mimeType, desktopStream, voiceStream, connectThrows,
                 mergePc, connected, combined, bindVars>>

\* the desktop audio: desktopStream is never null
ConnectDesktop ==
  /\ mergePc = "desktop"
  /\ LET o == connect(desktopStream, "desktop" \in connectThrows) IN
     /\ connected' = IF o = "connect" THEN connected \cup {"desktop"} ELSE connected
     /\ mergePc' = IF o = "uncaught" THEN "threw" ELSE "voice"
  /\ UNCHANGED <<supported, typeIdx, mimeType, ctx, desktopStream, voiceStream,
                 connectThrows, combined, bindVars>>

\* a stream made of the audio track of dest alone
tracksAudioOnly(stream) == [video |-> 0, audio |-> 1]

\* `tracks`: the video tracks of the desktop stream, then the one audio track
\* of dest.stream
tracks(stream) == [video |-> stream.video, audio |-> 1]

\* the microphone audio, guarded by `voiceStream &&`, then the return of
\* new MediaStream(tracks)
ConnectVoice ==
  /\ mergePc = "voice"
  /\ LET o == IF voiceStream.null THEN "skip"
              ELSE connect(voiceStream, "voice" \in connectThrows) IN
     /\ connected' = IF o = "connect" THEN connected \cup {"voice"} ELSE connected
     /\ mergePc' = IF o = "uncaught" THEN "threw" ELSE "returned"
     /\ combined' = IF o = "uncaught" THEN combined ELSE tracks(desktopStream)
  /\ UNCHANGED <<supported, typeIdx, mimeType, ctx, desktopStream, voiceStream,
                 connectThrows, bindVars>>

\* ---- the encoder of startRecording ----

\* the tracks of combinedStream as the encoder gets them: its video tracks are
\* those of the display, taken over by mergeAudioStreams
encoderTracks(stream) ==
  [video |-> IF stream.video > 0 THEN "display" ELSE "none", audio |-> stream.audio]

\* new MediaRecorder(combinedStream, {mimeType: selectedMimeType}): nothing
\* between mergeAudioStreams and the constructor reads settings.showCamera or
\* cameraStream, and no VideoCompositor is created.  startRecording then goes
\* on in the same task to its last statement, which calls initializeCamera
\* when the camera is shown and has no stream
NewMediaRecorder ==
  /\ Merged /\ mimeType # "" /\ recorderStream = Unbound
  /\ recorderStream' = encoderTracks(combined)
  /\ cameraReq' = IF showCamera /\ cameraStream = "none" THEN cameraReq \cup {"start"}
                  ELSE cameraReq
  /\ UNCHANGED <<supported, typeIdx, mimeType, mergeVars, showCamera, cameraStream>>

\* settings.showCamera once initializeCamera has returned to its caller:
\* toggleCamera then sets it
afterInitialize(caller, show) == IF caller = "toggle" THEN TRUE ELSE show

\* toggleCamera, from the camera button: up to its return or to the await in
\* initializeCamera.  A click is taken once the task of startRecording is over
ToggleCamera ==
  /\ recorderStream # Unbound /\ "toggle" \notin cameraReq
  /\ IF showCamera
     THEN /\ cameraStream' = "none"
          /\ showCamera' = FALSE
          /\ UNCHANGED cameraReq
     ELSE /\ cameraReq' = cameraReq \cup {"toggle"}
          /\ UNCHANGED <<showCamera, cameraStream>>
  /\ UNCHANGED <<supported, typeIdx, mimeType, mergeVars, recorderStream>>

\* getUserMedia for the camera settles: initializeCamera keeps the stream, or
\* catches the refusal and sets showCamera to false, and returns to its caller
CameraSettle(caller) ==
  /\ caller \in cameraReq
  /\ cameraReq' = cameraReq \ {caller}
  /\ \E ok \in BOOLEAN :
       /\ cameraStream' = IF ok THEN "live" ELSE cameraStream
       /\ showCamera' = afterInitialize(caller, IF ok THEN showCamera ELSE FALSE)
  /\ UNCHANGED <<supported, typeIdx, mimeType, mergeVars, recorderStream>>

\* the helpers are called with any platform and any pair of streams
HelperInit ==
  /\ AppInit /\ CompositorOff /\ PreviewOff
  /\ supported \in SUBSET Formats /\ typeIdx = 1 /\ mimeType = ""
  /\ ctx \in [state : {"running", "suspended"}, resume : {"none"}]
  /\ desktopStream \in [null : {FALSE}, audio : 0..MaxAudioTracks, video : 0..MaxVideoTracks]
  /\ voiceStream \in {NoStream} \cup [null : {FALSE}, audio : 0..MaxAudioTracks, video : {0}]
  /\ connectThrows \in SUBSET {"desktop", "voice"}
  /\ mergePc = "resume" /\ connected = {} /\ combined = NoTracks
  /\ showCamera \in BOOLEAN /\ cameraStream \in {"none", "live"}
  /\ recorderStream = Unbound /\ cameraReq = {}

HelperNext ==
  \/ ProbeType /\ UNCHANGED <<sessionVars, compositorVars, previewVars>>
  \/ Fallback /\ UNCHANGED <<sessionVars, compositorVars, previewVars>>
  \/ ResumeCtx /\ UNCHANGED <<sessionVars, compositorVars, previewVars>>
  \/ ResumeSettle /\ UNCHANGED <<sessionVars, compositorVars, previewVars>>
  \/ ConnectDesktop /\ UNCHANGED <<sessionVars, compositorVars, previewVars>>
  \/ ConnectVoice /\ UNCHANGED <<sessionVars, compositorVars, previewVars>>
  \/ NewMediaRecorder /\ UNCHANGED <<sessionVars, compositorVars, previewVars>>
  \/ ToggleCamera /\ UNCHANGED <<sessionVars, compositorVars, previewVars>>
  \/ \E caller \in {"start", "toggle"} :
       CameraSettle(caller) /\ UNCHANGED <<sessionVars, compositorVars, previewVars>>

HelperSpec == HelperInit /\ [][HelperNext]_vars


\* ---- VideoCompositor ----

\* JavaScript numbers as far as draw() needs them: the exact non-negative
\* rationals n/d, Infinity and NaN (rounding is left out)
Fin(n, d) == [k |-> "fin", n |-> n, d |-> d]
Infinity == [k |-> "inf", n |-> 1, d |-> 0]
NaN == [k |-> "nan", n |-> 0, d |-> 0]
One == Fin(1, 1)

\* a / b for integers a, b >= 0
Div(a, b) == IF b # 0 THEN Fin(a, b) ELSE IF a = 0 THEN NaN ELSE Infinity

\* x * y
Mul(x, y) ==
  IF x.k = "nan" \/ y.k = "nan" THEN NaN
  ELSE IF x.k = "inf" \/ y.k = "inf"
       THEN IF (x.k = "fin" /\ x.n = 0) \/ (y.k = "fin" /\ y.n = 0) THEN NaN ELSE Infinity
  ELSE Fin(x.n * y.n, x.d * y.d)

\* x + y
Add(x, y) ==
  IF x.k = "nan" \/ y.k = "nan" THEN NaN
  ELSE IF x.k = "inf" \/ y.k = "inf" THEN Infinity
  ELSE Fin(x.n * y.d + y.n * x.d, x.d * y.d)

\* x === y
NumEq(x, y) ==
  \/ x.k = "inf" /\ y.k = "inf"
  \/ x.k = "fin" /\ y.k = "fin" /\ x.n * y.d = y.n * x.d

\* x is truthy: neither 0 nor NaN
Truthy(x) == x.k = "inf" \/ (x.k = "fin" /\ x.n # 0)

\* a scale that is 1 whatever the viewport
safeScaleOne(scaleX) == One

\* `scaleX || 1`
safeScale(scaleX) == IF Truthy(scaleX) THEN scaleX ELSE One

\* the footprint of the camera bubble on screen: 48 * 4 px
BubblePx == 192

\* the width of the border on screen
BorderPx == 4

\* what one run of draw() paints on a base of width x height, with the window
\* innerWidth x innerHeight and the overlay at pos: the centre and the radius
\* of the two arcs, the size of the camera image and the line width
overlay(width, height, innerWidth, innerHeight, pos) ==
  LET scaleX == Div(width, innerWidth)
      scaleY == Div(height, innerHeight)
      scale == safeScale(scaleX)
      bubbleSize == Mul(Fin(BubblePx, 1), scale)
      x == Mul(Fin(pos.x, 1), scaleX)
      y == Mul(Fin(pos.y, 1), scaleY)
      half == Mul(bubbleSize, Fin(1, 2))
  IN [cx |-> Add(x, half), cy |-> Add(y, half), radius |-> half,
      bubbleSize |-> bubbleSize, x |-> x, y |-> y, safeScale |-> scale,
      lineWidth |-> Mul(Fin(BorderPx, 1), scale)]

\* the constructor: the canvas (300 x 150 as created), its 2d context, which
\* the platform may refuse, and the two video elements with their streams
Constructed ==
  /\ compositor \in [made : {TRUE}, ctx : BOOLEAN, canvasWidth : {CanvasWidth},
                     canvasHeight : {CanvasHeight}, animationId : {0}, srcObject : {TRUE}]
  /\ frames = [pending |-> {}, next |-> 1]
  /\ drawn = NoDraw
  /\ stopped = FALSE

\* a base resolution taken as known from its width alone
knownByWidth(width, height) == width # 0

\* `width && height`: the base resolution is known
known(width, height) == width # 0 /\ height # 0

\* a canvas resized only when the width of the base differs
canvasSizeOnWidth(c, width, height) ==
  IF known(width, height) /\ c.canvasWidth # width
  THEN [c EXCEPT !.canvasWidth = width, !.canvasHeight = height]
  ELSE c

\* the canvas after the size update of draw()
canvasSize(c, width, height) ==
  IF known(width, height) /\ (c.canvasWidth # width \/ c.canvasHeight # height)
  THEN [c EXCEPT !.canvasWidth = width, !.canvasHeight = height]
  ELSE c

\* draw(), called with the animation frames `pending` still requested: on a
\* screen video of width x height.  Without a context it returns at once and
\* requests no frame; the overlay position is asked for only when the base
\* resolution is known
draw(pending, width, height, innerWidth, innerHeight, pos) ==
  IF ~compositor.ctx
  THEN /\ frames' = [frames EXCEPT !.pending = pending]
       /\ UNCHANGED <<compositor, drawn>>
  ELSE /\ compositor' = [canvasSize(compositor, width, height)
                           EXCEPT !.animationId = frames.next]
       /\ drawn' = IF known(width, height)
                   THEN [painted |-> TRUE, polled |-> TRUE,
                         width |-> width, height |-> height,
                         innerWidth |-> innerWidth, innerHeight |-> innerHeight,
                         pos |-> pos,
                         overlay |-> overlay(width, height, innerWidth, innerHeight, pos)]
                   ELSE [painted |-> FALSE, polled |-> FALSE,
                         width |-> width, height |-> height]
       /\ frames' = [pending |-> pending \cup {frames.next}, next |-> frames.next + 1]

\* the sizes the screen video may report: 0 x 0 without a source or before its
\* metadata, else the resolution of the display
VideoSizes ==
  IF compositor.srcObject THEN (0..MaxRes) \X (0..MaxRes) ELSE {<<0, 0>>}

\* draw() on what the platform shows at this moment; the window and the
\* overlay position are read only when the video has a size
drawNow(pending) ==
  \E size \in VideoSizes :
    IF size[1] = 0 \/ size[2] = 0
    THEN draw(pending, size[1], size[2], 0, 0, [x |-> 0, y |-> 0])
    ELSE \E innerWidth \in 0..MaxViewport, innerHeight \in 0..MaxViewport,
            pos \in [x : 0..MaxPos, y : 0..MaxPos] :
              draw(pending, size[1], size[2], innerWidth, innerHeight, pos)

\* start(): calls draw() and returns the stream of the canvas.  A compositor
\* is not started again once it was stopped
CompositorStart ==
  /\ compositor.made /\ ~stopped
  /\ frames.next <= MaxFrames
  /\ drawNow(frames.pending)
  /\ UNCHANGED stopped

\* the browser runs a requested animation frame: draw() again
AnimationFrame ==
  /\ compositor.made
  /\ frames.next <= MaxFrames
  /\ \E id \in frames.pending : drawNow(frames.pending \ {id})
  /\ UNCHANGED stopped

\* stop(): cancels the frame animationId names, detaches the sources (the
\* videos then have no size) and sets the width of the canvas to 0
CompositorStop ==
  /\ compositor.made
  /\ frames' = [frames EXCEPT !.pending = @ \ {compositor.animationId}]
  /\ compositor' = [compositor EXCEPT !.srcObject = FALSE, !.canvasWidth = 0]
  /\ stopped' = TRUE
  /\ UNCHANGED drawn

CompositorInit == AppInit /\ HelpersOff /\ PreviewOff /\ Constructed

CompositorNext ==
  \/ CompositorStart /\ UNCHANGED <<sessionVars, helperVars, previewVars>>
  \/ AnimationFrame /\ UNCHANGED <<sessionVars, helperVars, previewVars>>
  \/ CompositorStop /\ UNCHANGED <<sessionVars, helperVars, previewVars>>

CompositorSpec == CompositorInit /\ [][CompositorNext]_vars


\* ---- Preview: trimming a recording ----

\* milliseconds in one half second
MsPerUnit == 1000 \div 2

\* the recordings a preview may be given: what the element can play, what its
\* duration attribute reports (the length, or Infinity as for the files of a
\* MediaRecorder), and the duration in milliseconds the artifact states
Lengths == 1..MaxLen
Reports == {"length", "Infinity"}
Durations == {u * MsPerUnit : u \in 0..MaxLen}

\* media.blob.type of the artifacts
BlobTypes == {"video/webm", "video/mp4"}

\* what the duration attribute reports for a file a MediaRecorder wrote
Reencoded == {"Infinity"}

\* the video element with a new source
Loading(len, reports, onseeked) ==
  [len |-> len, reports |-> reports, currentTime |-> 0, paused |-> TRUE,
   seek |-> "idle", loaded |-> FALSE, onseeked |-> onseeked]

\* the component is mounted on an artifact
Mounted ==
  /\ media \in [duration : Durations, version : {0}, chunks : {<<>>}, type : BlobTypes]
  /\ \E len \in Lengths, reports \in Reports : video = Loading(len, reports, 0)
  /\ view = [isEditing |-> FALSE, isProcessing |-> FALSE, isPlaying |-> FALSE,
             trimStart |-> 0, trimEnd |-> 0, duration |-> 0]
  /\ trims = 0
  /\ job = [j \in 1..MaxTrims |-> NoJob]
  /\ delivered = <<>>

\* a range that is always the duration of the artifact
fullRangeOfArtifact(v, m) == m.duration \div MsPerUnit

\* `dur` of handleLoadedMetadata: the duration of the element, or that of the
\* artifact when the element reports Infinity, NaN or 0
fullRange(v, m) ==
  IF v.reports # "length" \/ v.len = 0 THEN m.duration \div MsPerUnit ELSE v.len

\* handleLoadedMetadata
LoadedMetadata ==
  /\ video.reports # "none" /\ ~video.loaded
  /\ video' = [video EXCEPT !.loaded = TRUE]
  /\ view' = [view EXCEPT !.duration = fullRange(video, media), !.trimStart = 0,
                          !.trimEnd = fullRange(video, media)]
  /\ UNCHANGED <<media, trims, job, delivered>>

\* `video.currentTime = t`: the position is set at once, within what the
\* element can play, and a seek begins; before the metadata is loaded there
\* is nothing to seek in
seekTo(v, t) ==
  IF ~v.loaded THEN v
  ELSE [v EXCEPT !.currentTime = IF t < 0 THEN 0 ELSE IF t > v.len THEN v.len ELSE t,
                 !.seek = "pending"]

\* video.play(): from the start when the end was reached
play(v) == [v EXCEPT !.paused = FALSE, !.currentTime = IF @ >= v.len THEN 0 ELSE @]

\* handleTimeUpdate of the latest render on the element v: [video, view] after it
handleTimeUpdate(v, w) ==
  IF w.isEditing /\ v.currentTime >= w.trimEnd
  THEN [video |-> seekTo([v EXCEPT !.paused = TRUE], w.trimStart),
        view |-> [w EXCEPT !.isPlaying = FALSE]]
  ELSE [video |-> v, view |-> w]

\* stopHandler of invocation j on the element v: [video, job] after it.
\* stop() of an encoder that is no longer recording does nothing
stopHandler(j, v, jb) ==
  IF jb[j].listening /\ v.currentTime >= jb[j].end
  THEN [video |-> [v EXCEPT !.paused = TRUE],
        job |-> [jb EXCEPT ![j].rec = IF @ = "recording" THEN "stopping" ELSE @,
                           ![j].listening = FALSE]]
  ELSE [video |-> v, job |-> jb]

\* the stopHandlers of invocations j..MaxTrims, in the order they were added
RECURSIVE stopHandlers(_, _, _)
stopHandlers(j, v, jb) ==
  IF j > MaxTrims THEN [video |-> v, job |-> jb]
  ELSE LET r == stopHandler(j, v, jb) IN stopHandlers(j + 1, r.video, r.job)

\* a timeupdate event on the element v: the handler React registered when the
\* element was created, then the listeners saveTrim added
timeupdate(v, w, jb) ==
  LET a == handleTimeUpdate(v, w)
      b == stopHandlers(1, a.video, jb)
  IN [video |-> b.video, view |-> a.view, job |-> b.job]

\* the tracks captured from the element end: every encoder recording them stops
tracksEnd(jb) ==
  [j \in 1..MaxTrims |-> IF jb[j].rec = "recording" THEN [jb[j] EXCEPT !.rec = "stopping"]
                          ELSE jb[j]]

\* playback goes on by half a second and a timeupdate is fired; at the end of
\* the recording the ended event follows (it may be left out when a handler
\* has moved the position), onEnded runs, and the platform may end the
\* captured tracks
Playback ==
  /\ video.loaded /\ ~video.paused /\ video.currentTime < video.len
  /\ LET r == timeupdate([video EXCEPT !.currentTime = @ + 1], view, job)
         atEnd == video.currentTime + 1 = video.len
     IN \E ended \in BOOLEAN, ends \in BOOLEAN :
          /\ ended = atEnd \/ (atEnd /\ r.video.seek = "pending" /\ ~ended)
          /\ ends => ended
          /\ video' = IF ended THEN [r.video EXCEPT !.paused = TRUE] ELSE r.video
          /\ view' = IF ended THEN [r.view EXCEPT !.isPlaying = FALSE] ELSE r.view
          /\ job' = IF ends THEN tracksEnd(r.job) ELSE r.job
  /\ UNCHANGED <<media, trims, delivered>>

\* enterEditMode
EnterEditMode ==
  /\ video.reports # "none" /\ ~view.isEditing
  /\ video' = [video EXCEPT !.paused = TRUE]
  /\ view' = [view EXCEPT !.isPlaying = FALSE, !.isEditing = TRUE]
  /\ UNCHANGED <<media, trims, job, delivered>>

\* cancelEdit: its button is disabled while isProcessing
CancelEdit ==
  /\ view.isEditing /\ ~view.isProcessing
  /\ view' = [view EXCEPT !.isEditing = FALSE, !.trimStart = 0, !.trimEnd = view.duration]
  /\ UNCHANGED <<media, video, trims, job, delivered>>

\* togglePlay, from the button of the progress bar shown outside edit mode
TogglePlay ==
  /\ video.reports # "none" /\ ~view.isEditing
  /\ video' = IF view.isPlaying THEN [video EXCEPT !.paused = TRUE]
              ELSE IF view.isEditing /\ video.currentTime >= view.trimEnd
                   THEN play(seekTo(video, view.trimStart))
                   ELSE play(video)
  /\ view' = [view EXCEPT !.isPlaying = ~view.isPlaying]
  /\ UNCHANGED <<media, trims, job, delivered>>

\* a move of the start handle to `time`
DragStart(time) ==
  /\ view.isEditing
  /\ LET newStart == IF time < view.trimEnd - 1 THEN time ELSE view.trimEnd - 1 IN
     /\ view' = [view EXCEPT !.trimStart = newStart]
     /\ video' = seekTo(video, newStart)
  /\ UNCHANGED <<media, trims, job, delivered>>

\* a move of the end handle to `time`
DragEnd(time) ==
  /\ view.isEditing
  /\ LET newEnd == IF time > view.trimStart + 1 THEN time ELSE view.trimStart + 1 IN
     /\ view' = [view EXCEPT !.trimEnd = newEnd]
     /\ video' = seekTo(video, newEnd)
  /\ UNCHANGED <<media, trims, job, delivered>>

\* a save button that is never disabled
saveTrimAlwaysEnabled(w) == TRUE

\* the save button: `disabled={isProcessing}`
saveTrimEnabled(w) == ~w.isProcessing

\* saveTrim up to its await of the seeked event
SaveTrim ==
  /\ video.reports # "none" /\ view.isEditing /\ saveTrimEnabled(view)
  /\ trims < MaxTrims
  /\ trims' = trims + 1
  /\ view' = [view EXCEPT !.isProcessing = TRUE, !.isPlaying = TRUE]
  /\ video' = [seekTo(video, view.trimStart) EXCEPT !.onseeked = trims + 1]
  /\ job' = [job EXCEPT ![trims + 1] = [NoJob EXCEPT !.pc = "seek", !.start = view.trimStart,
                                                      !.end = view.trimEnd]]
  /\ UNCHANGED <<media, delivered>>

\* a catch that leaves isProcessing as it is
trimFailedSilently(w) == w

\* the catch of saveTrim
trimFailed(w) == [w EXCEPT !.isProcessing = FALSE]

\* the seek ends.  It may end with no event at all.  Otherwise the element
\* fires timeupdate and then seeked, and the resolver in video.onseeked resumes
\* the saveTrim that installed it: the encoder is constructed, which may throw
\* into the catch, and started, playback begins and stopHandler is registered
Seeked ==
  /\ video.seek = "pending"
  /\ \E completes \in BOOLEAN, constructs \in BOOLEAN :
       LET j == video.onseeked
           r == timeupdate([video EXCEPT !.seek = "idle"], view, job)
       IN
       IF ~completes
       THEN video' = [video EXCEPT !.seek = "idle"] /\ UNCHANGED <<view, job>>
       ELSE IF j = 0 \/ r.job[j].pc # "seek"
       THEN video' = r.video /\ view' = r.view /\ job' = r.job
       ELSE IF constructs
       THEN /\ video' = play(r.video)
            /\ job' = [r.job EXCEPT ![j].pc = "capturing", ![j].rec = "recording",
                                    ![j].listening = TRUE]
            /\ view' = r.view
       ELSE /\ video' = r.video
            /\ job' = [r.job EXCEPT ![j].pc = "failed"]
            /\ view' = trimFailed(r.view)
  /\ UNCHANGED <<media, trims, delivered>>

\* a duration taken from the handles as they are when the encoder stops
newDurationOfView(jb) == ((view.trimEnd - view.trimStart) * 1000) \div 2

\* newDuration of onstop, in milliseconds
newDuration(jb) == ((jb.end - jb.start) * 1000) \div 2

\* the encoder of invocation j has stopped: the last dataavailable, whose
\* chunk is kept when it is not empty, then onstop: the new artifact goes to
\* onUpdateMedia, the parent renders the preview with it, and the effect on
\* [media] and the new source reset the element
RecorderStopped(j) ==
  /\ job[j].rec = "stopping"
  /\ \E size \in BOOLEAN, len \in Lengths, reports \in Reencoded :
       LET chunks == IF size THEN Append(job[j].chunks, <<j, 1>>) ELSE job[j].chunks IN
       /\ job' = [job EXCEPT ![j] = [NoJob EXCEPT !.pc = "done",
                                                  !.listening = job[j].listening,
                                                  !.end = IF job[j].listening
                                                          THEN job[j].end ELSE 0]]
       /\ delivered' = Append(delivered, j)
       /\ media' = [duration |-> newDuration(job[j]), version |-> media.version + 1,
                    chunks |-> chunks, type |-> media.type]
       /\ video' = Loading(len, reports, video.onseeked)
  /\ view' = [view EXCEPT !.isProcessing = FALSE, !.isEditing = FALSE, !.isPlaying = FALSE]
  /\ UNCHANGED trims

PreviewInit == AppInit /\ hasPicker /\ HelpersOff /\ CompositorOff /\ Mounted

PreviewNext ==
  \/ LoadedMetadata /\ UNCHANGED <<sessionVars, helperVars, compositorVars>>
  \/ Playback /\ UNCHANGED <<sessionVars, helperVars, compositorVars>>
  \/ EnterEditMode /\ UNCHANGED <<sessionVars, helperVars, compositorVars>>
  \/ CancelEdit /\ UNCHANGED <<sessionVars, helperVars, compositorVars>>
  \/ TogglePlay /\ UNCHANGED <<sessionVars, helperVars, compositorVars>>
  \/ \E time \in 0..MaxLen :
       time <= view.duration /\ DragStart(time)
       /\ UNCHANGED <<sessionVars, helperVars, compositorVars>>
  \/ \E time \in 0..MaxLen :
       time <= view.duration /\ DragEnd(time)
       /\ UNCHANGED <<sessionVars, helperVars, compositorVars>>
  \/ SaveTrim /\ UNCHANGED <<sessionVars, helperVars, compositorVars>>
  \/ Seeked /\ UNCHANGED <<sessionVars, helperVars, compositorVars>>
  \/ \E j \in 1..MaxTrims :
       RecorderStopped(j) /\ UNCHANGED <<sessionVars, helperVars, compositorVars>>

PreviewSpec == PreviewInit /\ [][PreviewNext]_vars


\* ---- the claims ----

\* the chunks encoder i has emitted, in emission order
EmittedSeq(i) == [k \in 1..emitted[i] |-> Chunk(i, k)]

\* C1: whichever disk writes fail, the finalized output of a session (the file
\* on disk, or the assembled download) is exactly the chunks its encoder
\* emitted, in emission order.  Stated for runs with a single startRecording
\* invocation, so that no other session takes part.
C1_OutputIsEmitted ==
  (started = 1 /\ artifact.kind # "none") => artifact.data = EmittedSeq(artifact.of)

\* C2: once a write to the disk target has failed, ondataavailable attempts no
\* further write on the disk target: no chunk is delivered to the branch that
\* writes while writableStreamRef holds the failed stream.
C2_NoWriteAfterFailure ==
  [][(\E i \in Inv : emitted'[i] = emitted[i] + 1)
       => ~(writableStreamRef # 0 /\ sink[writableStreamRef] = "errored")]_vars

\* close() of the disk target fails in the onstop of encoder i in this step
CloseFails(i) ==
  /\ fin[i] # "done" /\ fin'[i] = "done"
  /\ \/ fin[i] = "no" /\ writableStreamRef # 0
     \/ fin[i] = "closing" /\ \A j \in Inv : closer[j] = i => sink'[j] # "closed"

\* every track of the stream streamRef holds (the recording stream) is stopped
RecordingStreamStopped ==
  streamRef # 0 => \A k \in CombinedTracks : track[streamRef][k] # "live"

\* C3: when close() of the disk target fails in onstop and the buffer holds a
\* chunk, the recovery artifact is assembled from exactly the buffered chunks
\* in their buffered order, and the session terminates: state IDLE, the
\* recording stream stopped, the timer back to 0 and its interval cleared.
C3_CloseFailureRecovers ==
  [][\A i \in Inv : (CloseFails(i) /\ chunksRef' # <<>>) =>
        /\ artifact' = [of |-> i, kind |-> "backup", data |-> chunksRef']
        /\ state' = "IDLE" /\ timer' = 0 /\ timerRef' = "off"
        /\ RecordingStreamStopped']_vars

C3_Witness ==
  /\ artifact.kind = "backup" /\ artifact.data = chunksRef
  /\ state = "IDLE" /\ timer = 0

\* C4: at most one encoder is recording or paused.  Counted are the encoders
\* whose stream still has a live track, which the platform is not about to stop.
C4_OneActiveEncoder ==
  Cardinality({i \in Inv : rec[i] \in Active /\ ~AllEnded(i)}) <= 1

\* C5: when a session that reached RECORDING is back in IDLE (its onstop has
\* run), every track it acquired is stopped: display video, display audio and
\* microphone.
C5_AllTracksStopped ==
  \A i \in Inv : (fin[i] = "done" /\ state = "IDLE") =>
                    \A k \in Kinds : track[i][k] # "live"

C7_NoRecordingAfterArmingEnd ==
  [][\A i \in Inv : (pc[i] \in Arming /\ track[i]["dv"] = "ended")
                      => rec'[i] \notin Active]_vars

\* C8: when the display ends while the session is RECORDING or PAUSED, the step
\* has the outcome of an explicit stopRecording in that state: the encoder is
\* stopped and the interval cleared.
C8_DisplayEndStopsEncoder ==
  [][\A i \in Inv :
        ( /\ rec[i] \in Active /\ state \in {"RECORDING", "PAUSED"}
          /\ track[i]["da"] = "live" /\ track'[i]["da"] = "ended" )
        => rec'[i] = "stopping" /\ timerRef' = "off"]_vars

\* onstop of encoder i has run to its end and the session is over
Terminal(i) ==
  /\ fin[i] = "done"
  /\ state = "IDLE" /\ timer = 0 /\ timerRef = "off"

\* encoder i has been stopped and its onstop has not yet run to its end
Ending(i) == rec[i] = "stopping" \/ fin[i] = "closing"

C10_ErrorEndsSession ==
  [][\A i \in Inv : (rec[i] \in Active /\ rec'[i] = "failed") =>
        /\ error' /\ timerRef' = "off" /\ state' = "IDLE"
        /\ RecordingStreamStopped']_vars

C10_Witness ==
  \E i \in Inv : rec[i] = "failed" /\ streamRef = i /\ timer > 0 /\ error /\ state = "IDLE"

\* the encoder of invocation i fails in this step
EncoderFails(i) == rec[i] \in Active /\ rec'[i] = "failed"

\* startRecording invocation i ends in this step on an exception that is neither
\* a cancellation nor a refusal by the user
StartupFails(i) == pc[i] \notin Returned /\ pc'[i] = "threw"

\* C11: the user-visible error becomes non-null only in a step in which an
\* encoder fails or a startRecording invocation ends on an exception that is
\* neither a cancellation nor a refusal; it is left as it is by a step that
\* ends startRecording on a cancelled display selection or save dialog, by the
\* continuation of the camera request, and by a failing chunk write, and a
\* refused microphone sets it only if the encoder then fails to start.
C11_ErrorOnlyOnFailure ==
  [][/\ (~error /\ error') => \E i \in Inv : EncoderFails(i) \/ StartupFails(i)
     /\ \A i \in Inv :
          \/ pc[i] \notin Returned /\ pc'[i] = "cancelled"
          \/ pc[i] = "camera" /\ pc'[i] = "done"
          \/ sink[i] = "open" /\ sink'[i] = "errored"
          \/ pc[i] = "mic" /\ pc'[i] \in {"camera", "done"} /\ track'[i]["mic"] = "denied"
          => error' = error
    ]_vars

C11_Witness == \E i \in Inv : pc[i] = "threw" /\ error /\ track[i]["dv"] = "ended"

\* C12: when startRecording ends on an exception that is no cancellation after
\* it has acquired the display, everything the invocation acquired is released
\* by the end of that step: the display tracks and the microphone track are
\* stopped, the writable stream it created is no longer open, and the state
\* is IDLE.
C12_FailureReleasesAll ==
  [][\A i \in Inv : (StartupFails(i) /\ track[i]["dv"] # "none") =>
        /\ \A k \in {"dv", "da", "mic"} : track'[i][k] # "live"
        /\ sink'[i] # "open"
        /\ state' = "IDLE"]_vars

\* C13: when the user cancels the save dialog of invocation i, that step stops
\* every track of its display stream, acquires no microphone, constructs no
\* encoder and starts no timer, and after it no error is shown and the state
\* is IDLE.
C13_SaveCancelAborts ==
  [][\A i \in Inv : (pc[i] = "picker" /\ pc'[i] = "cancelled") =>
        /\ \A k \in DisplayTracks : track'[i][k] # "live"
        /\ track'[i]["mic"] = "none"
        /\ rec'[i] = "none" /\ mediaRecorderRef' = mediaRecorderRef
        /\ timerRef' = timerRef
        /\ ~error'
        /\ state' = "IDLE"]_vars

\* C14: when the user refuses the display selection of invocation i, that step
\* ends startRecording with the state IDLE, no error shown and the guide
\* hidden, and it creates no encoder, no timer and no save target.
C14_DisplayRefusalIsSilent ==
  [][\A i \in Inv : (pc[i] = "display" /\ pc'[i] = "cancelled") =>
        /\ state' = "IDLE"
        /\ ~error'
        /\ ~isSelecting'
        /\ rec'[i] = "none" /\ mediaRecorderRef' = mediaRecorderRef
        /\ timerRef' = timerRef
        /\ sink'[i] = "none" /\ writableStreamRef' = writableStreamRef]_vars

\* C15: when the microphone request of invocation i fails and the encoder is
\* constructed and started without an exception, that step reaches RECORDING
\* with the encoder of i recording, and the only input connected to the audio
\* mix is the display audio.
C15_MicFailureIsNotFatal ==
  [][\A i \in Inv :
        (pc[i] = "mic" /\ track'[i]["mic"] = "denied" /\ pc'[i] # "threw") =>
        /\ pc'[i] \in {"camera", "done"}
        /\ state' = "RECORDING"
        /\ rec'[i] = "recording" /\ mediaRecorderRef' = i
        /\ mixInputs(track', i) = {"da"} /\ track'[i]["mix"] = "live"]_vars

C15_Witness ==
  \E i \in Inv : /\ track[i]["mic"] = "denied" /\ rec[i] = "recording"
                  /\ state = "RECORDING" /\ timerRef = "running"

\* C17: an encoder becomes paused only in a step taken in state RECORDING,
\* which clears the interval and sets PAUSED, and a paused encoder resumes only
\* in a step taken in state PAUSED, which starts the interval and sets
\* RECORDING; neither step changes the elapsed time.  The elapsed time stays as
\* it is while the state stays PAUSED, and it advances only in state RECORDING.
C17_PauseResume ==
  [][/\ \A i \in Inv :
          /\ (rec[i] # "paused" /\ rec'[i] = "paused") =>
                /\ state = "RECORDING" /\ state' = "PAUSED"
                /\ timerRef' = "off" /\ timer' = timer
          /\ (rec[i] = "paused" /\ rec'[i] = "recording") =>
                /\ state = "PAUSED" /\ state' = "RECORDING"
                /\ timerRef' = "running" /\ timer' = timer
     /\ (state = "PAUSED" /\ state' = "PAUSED") => timer' = timer /\ timerRef' = "off"
     /\ timer' > timer => state = "RECORDING"
    ]_vars

C17_Witness ==
  /\ state = "PAUSED" /\ timer > 0 /\ timerRef = "off"
  /\ mediaRecorderRef # 0 /\ rec[mediaRecorderRef] = "paused"

\* the session has terminated: state IDLE, no interval, recording stream stopped
Terminated == state = "IDLE" /\ timerRef = "off" /\ RecordingStreamStopped

\* stopRecording runs in this step from a callback of invocation i: onended of
\* its display video track, or onerror of its encoder
StopRuns(i) ==
  \/ track[i]["dv"] = "live" /\ track'[i]["dv"] = "ended" /\ pc'[i] = pc[i]
  \/ EncoderFails(i)

\* stopAllStreams runs in this step at the end of onstop of encoder i
OnstopEnds(i) == fin[i] # "done" /\ fin'[i] = "done"

PreferenceOrder == << "video/webm;codecs=vp9,opus", "video/webm;codecs=vp8,opus",
                      "video/webm", "video/mp4" >>
Baseline == "video/webm"

\* C19: for every set of supported formats, the value getSupportedMimeType
\* returns is the first entry of the preference list that is supported, and
\* the baseline video/webm when no entry is supported; it is always an entry
\* of the list.
C19_FirstSupportedType ==
  mimeType # "" =>
    LET hits == {k \in 1..Len(PreferenceOrder) : PreferenceOrder[k] \in supported} IN
    /\ \E k \in 1..Len(PreferenceOrder) : mimeType = PreferenceOrder[k]
    /\ IF hits = {} THEN mimeType = Baseline
       ELSE \E k \in hits : mimeType = PreferenceOrder[k] /\ \A h \in hits : k <= h

C19_Witness ==
  /\ mimeType = "video/mp4"
  /\ "video/x-matroska;codecs=avc1" \in supported /\ "video/webm" \notin supported

\* the stream s has at least one audio track
HasAudio(s) == ~s.null /\ s.audio >= 1

\* C20: when mergeAudioStreams returns, the inputs connected to the shared
\* destination are exactly those with at least one audio track whose
\* connection did not throw; an input without audio tracks and a null voice
\* stream are skipped, and the function never ends on an exception: with no
\* audio in any input it returns with nothing connected.
C20_ConnectsAudioInputs ==
  /\ mergePc # "threw"
  /\ mergePc = "returned" =>
       connected = ( (IF HasAudio(desktopStream) /\ "desktop" \notin connectThrows
                      THEN {"desktop"} ELSE {})
                     \cup
                     (IF HasAudio(voiceStream) /\ "voice" \notin connectThrows
                      THEN {"voice"} ELSE {}) )

C20_Witness ==
  /\ mergePc = "returned" /\ connected = {"desktop"}
  /\ HasAudio(voiceStream) /\ "voice" \in connectThrows

\* input k has audio tracks and its connection throws
ConnectFails(k) ==
  /\ k \in connectThrows
  /\ HasAudio(IF k = "desktop" THEN desktopStream ELSE voiceStream)

\* C21: in mergeAudioStreams the step after a connection that fails for the
\* desktop input is the statement that connects the voice input, the step
\* after one that fails for the voice input is the return of the mixed
\* stream, and no step ends the function on an exception; a rejected resume() of a suspended context
\* changes nothing of the mix.
C21_FailuresDoNotAbort ==
  [][/\ (mergePc = "desktop" /\ ConnectFails("desktop") /\ mergePc' # mergePc) =>
          mergePc' = "voice"
     /\ (mergePc = "voice" /\ ConnectFails("voice") /\ mergePc' # mergePc) =>
          mergePc' = "returned" /\ combined'.audio = 1
     /\ (ctx.resume = "pending" /\ ctx'.resume = "rejected") =>
          mergePc' = mergePc /\ connected' = connected /\ combined' = combined
     /\ mergePc' # "threw"]_vars

C21_Witness ==
  /\ mergePc = "returned" /\ ctx.resume = "rejected"
  /\ ConnectFails("desktop") /\ connected = {"voice"} /\ combined.audio = 1

\* C22 as claimed: the stream mergeAudioStreams returns has the mixed audio
\* track and no video track.
C22_ReturnsAudioOnly ==
  mergePc = "returned" => combined.video = 0 /\ combined.audio = 1

\* C22: the stream mergeAudioStreams returns has the video tracks of the
\* desktop stream and one audio track, that of the shared destination,
\* whatever the inputs and whichever connections failed.
C22_ReturnsDesktopVideoAndMix ==
  mergePc = "returned" =>
    combined = [video |-> desktopStream.video, audio |-> 1]

C22_Witness ==
  /\ mergePc = "returned" /\ combined.video = 1 /\ combined.audio = 1
  /\ desktopStream.audio = 0 /\ voiceStream.null

\* C23 as claimed: when the encoder is built with the camera shown and its
\* stream available, the display and the microphone both carrying audio that
\* connects, its video is the output of the compositor and both inputs are
\* connected to the mix.
C23_EncoderGetsComposite ==
  ( /\ recorderStream # Unbound
    /\ showCamera /\ cameraStream = "live"
    /\ HasAudio(desktopStream) /\ HasAudio(voiceStream) /\ connectThrows = {} )
  => recorderStream.video = "canvas" /\ connected = {"desktop", "voice"}

\* the last draw() painted an overlay with a window of non-zero width and height
PaintedInWindow == drawn.painted /\ drawn.innerWidth # 0 /\ drawn.innerHeight # 0

\* the ratios of the base resolution to the window on the last draw()
RatioX == Div(drawn.width, drawn.innerWidth)
RatioY == Div(drawn.height, drawn.innerHeight)

\* C24 as claimed: the clip circle of a tick has diameter 192 x (base width /
\* viewport width) and its centre is the UI position scaled per axis.
C24_CircleCentredOnPosition ==
  PaintedInWindow =>
    /\ NumEq(Mul(Fin(2, 1), drawn.overlay.radius), Mul(Fin(BubblePx, 1), RatioX))
    /\ NumEq(drawn.overlay.cx, Mul(Fin(drawn.pos.x, 1), RatioX))
    /\ NumEq(drawn.overlay.cy, Mul(Fin(drawn.pos.y, 1), RatioY))

\* C24: for every non-zero base resolution, non-zero viewport and UI position
\* the clip circle of a tick has diameter 192 x (base width / viewport width),
\* and its centre is the UI position scaled per axis plus half that diameter
\* on each axis: the scaled position is the top-left corner of the circle's box.
C24_CircleBoxAtPosition ==
  PaintedInWindow =>
    LET diameter == Mul(Fin(BubblePx, 1), RatioX)
        half == Mul(diameter, Fin(1, 2))
    IN /\ NumEq(Mul(Fin(2, 1), drawn.overlay.radius), diameter)
       /\ NumEq(drawn.overlay.cx, Add(Mul(Fin(drawn.pos.x, 1), RatioX), half))
       /\ NumEq(drawn.overlay.cy, Add(Mul(Fin(drawn.pos.y, 1), RatioY), half))

C24_Witness ==
  /\ PaintedInWindow /\ frames.next = 3
  /\ drawn.width = 1 /\ drawn.innerWidth = 2 /\ drawn.height = 2 /\ drawn.innerHeight = 1
  /\ drawn.pos = [x |-> 1, y |-> 1]
  /\ NumEq(drawn.overlay.cx, Fin(97, 2)) /\ NumEq(drawn.overlay.cy, Fin(50, 1))

\* C25 as claimed: a tick with a viewport of width 0 uses the scale 1 for the
\* diameter and the border, and maps the overlay to finite values.
C25_ZeroViewportScaleIsOne ==
  (drawn.painted /\ drawn.innerWidth = 0) =>
    /\ NumEq(drawn.overlay.safeScale, One)
    /\ NumEq(drawn.overlay.bubbleSize, Fin(BubblePx, 1))
    /\ NumEq(drawn.overlay.lineWidth, Fin(BorderPx, 1))
    /\ drawn.overlay.x.k = "fin" /\ drawn.overlay.y.k = "fin"

\* a requested animation frame runs draw() in this step
FrameRuns == frames'.next > frames.next /\ frames.pending \ frames'.pending # {}

\* C26 as claimed: once stop() has returned no animation frame runs draw() and
\* the canvas keeps the width 0, whatever calls of start() and stop() and
\* whatever ticks came before.
C26_NoTickAfterStop ==
  [][stopped => ~FrameRuns /\ compositor'.canvasWidth = 0]_vars

\* invocation j of saveTrim delivers its artifact in this step
Delivers(j) == job[j].rec = "stopping" /\ job'[j].pc = "done"

\* invocation j of saveTrim was made with the handles on the full range
FullRange(j) == video.loaded /\ job[j].start = 0 /\ job[j].end = view.duration

\* C27 (as stated): a trim of the full range delivers an artifact whose
\* duration is within one second of the duration of the original artifact.
C27_RoundTripWithinOneSecond ==
  [][\A j \in 1..MaxTrims :
       Delivers(j) /\ FullRange(j)
         => /\ media'.duration - media.duration <= 1000
            /\ media.duration - media'.duration <= 1000]_vars

\* C27 (amended): a trim of the full range delivers an artifact whose duration
\* is that of the video element when the element reports a finite one, and
\* that of the original artifact when it does not.
C27_RoundTripOfLoadedRange ==
  [][\A j \in 1..MaxTrims :
       Delivers(j) /\ FullRange(j)
         => media'.duration = IF video.reports = "length" THEN video.len * MsPerUnit
                              ELSE media.duration]_vars

\* a full-range trim of the longest recording has been delivered
C27_Witness ==
  media.version = 1 /\ delivered # <<>> /\ media.duration = MaxLen * MsPerUnit

\* the encoder of invocation j of saveTrim is recording with its stopHandler
\* registered
Capturing(j) == job[j].rec = "recording" /\ job[j].listening

\* C28 (as stated): when playback during saveTrim reports a position at or
\* past the trimEnd of the invocation, with handleTimeUpdate and stopHandler
\* both run on that update, playback is paused and the encoder is stopped.
C28_StopAtTrimEnd ==
  [][\A j \in 1..MaxTrims :
       Capturing(j) /\ Playback /\ video.currentTime + 1 >= job[j].end
         => video'.paused /\ job'[j].rec # "recording"]_vars

\* the seek invocation j of saveTrim awaits ends in this step without its
\* seeked event
SeekLost(j) ==
  /\ job[j].pc = "seek" /\ job'[j].pc = "seek"
  /\ video.onseeked = j /\ video.seek = "pending" /\ video'.seek = "idle"

\* the construction of the encoder of invocation j throws in this step
ConstructionFails(j) == job[j].pc = "seek" /\ job'[j].pc = "failed"

\* C29 (as stated): when the seek of a trim ends without completing, or the
\* construction of its encoder throws, the trim is aborted: nothing is
\* delivered through onUpdateMedia and isProcessing is false again.
C29_FailedTrimAborts ==
  [][\A j \in 1..MaxTrims :
       SeekLost(j) \/ ConstructionFails(j)
         => /\ ~view'.isProcessing
            /\ delivered' = delivered /\ media' = media]_vars

\* invocation j of saveTrim is in flight: started, and neither failed nor
\* through its onstop
InFlight(j) == job[j].pc \in {"seek", "capturing"}

\* C30: at most one invocation of saveTrim is in flight, and at most one
\* trim encoder exists that has not run its onstop.
C30_OneTrimInFlight ==
  /\ Cardinality({j \in 1..MaxTrims : InFlight(j)}) <= 1
  /\ Cardinality({j \in 1..MaxTrims : job[j].rec \in {"recording", "stopping"}}) <= 1

\* a second trim is capturing after the first one has ended
C30_Witness ==
  /\ job[1].pc \in {"done", "failed"}
  /\ job[2].pc = "capturing" /\ job[2].rec = "recording" /\ view.isProcessing

\* C31 (as stated): once the metadata is loaded, and after any drags of the
\* two handles, 0 <= trimStart < trimEnd <= duration.
C31_WindowInsideArtifact ==
  video.loaded =>
    /\ 0 <= view.trimStart /\ view.trimStart < view.trimEnd
    /\ view.trimEnd <= view.duration

\* C32 (as stated): in edit mode on a loaded recording, whatever drags were
\* made, the selection is at least half a second long, so saveTrim never runs
\* with a shorter one.
C32_MinimumSegment ==
  video.loaded /\ view.isEditing => view.trimEnd - view.trimStart >= 1

\* C36: saveTrim keeps the trimStart and trimEnd of its invocation, and the
\* artifact it delivers has duration (trimEnd - trimStart) x 1000 ms for those
\* values, holds the chunks of its own encoder in arrival order, and has the
\* MIME type of the source artifact.
C36_DeliveredArtifact ==
  [][/\ trims' # trims =>
          /\ job'[trims'].start = view.trimStart
          /\ job'[trims'].end = view.trimEnd
     /\ \A j \in 1..MaxTrims :
          /\ job[j].pc = job'[j].pc =>
               job[j].start = job'[j].start /\ job[j].end = job'[j].end
          /\ Delivers(j) =>
               /\ 2 * media'.duration = (job[j].end - job[j].start) * 1000
               /\ media'.chunks \in {job[j].chunks, Append(job[j].chunks, <<j, 1>>)}
               /\ media'.type = media.type]_vars

\* a trim of half a second has been delivered with its chunk
C36_Witness ==
  /\ media.version = 1 /\ delivered # <<>>
  /\ media.duration = MsPerUnit /\ media.chunks # <<>>

\* draw() runs through in this step: it requests the next animation frame
DrawTick == frames'.next # frames.next

\* C34: a tick that finds the width or the height of the base at 0 paints
\* nothing, leaves the size of the canvas as it was, does not ask for the
\* overlay position, and has requested the next animation frame.
C34_UnknownResolutionSkips ==
  [][DrawTick /\ (drawn'.width = 0 \/ drawn'.height = 0)
       => /\ ~drawn'.painted /\ ~drawn'.polled
          /\ compositor'.canvasWidth = compositor.canvasWidth
          /\ compositor'.canvasHeight = compositor.canvasHeight
          /\ frames.next \in frames'.pending
          /\ compositor'.animationId = frames.next]_vars

\* a tick found only the height of the base at 0, after one that painted
C34_Witness ==
  /\ frames.next > 2 /\ ~stopped
  /\ ~drawn.painted /\ drawn.width # 0 /\ drawn.height = 0
  /\ compositor.canvasWidth # CanvasWidth
  /\ compositor.animationId \in frames.pending

\* C35: after a tick that finds the width and the height of the base not 0,
\* the canvas has that width and that height, whatever size it had before.
C35_CanvasFollowsBase ==
  [][DrawTick /\ drawn'.width # 0 /\ drawn'.height # 0
       => /\ compositor'.canvasWidth = drawn'.width
          /\ compositor'.canvasHeight = drawn'.height]_vars

\* the base changed its height only between two ticks and the canvas followed
C35_Witness ==
  /\ frames.next > 2 /\ drawn.painted
  /\ drawn.width = 1 /\ drawn.height = 2
  /\ compositor.canvasWidth = 1 /\ compositor.canvasHeight = 2

\* encoder i emits a non-empty chunk in this step
Emits(i) == emitted'[i] = emitted[i] + 1

\* the task that stops encoder i runs in this step
Stops(i) == rec[i] # "inactive" /\ rec'[i] = "inactive"

\* the chunks 1..n of encoder i in the order of their emission
ChunksOf(i, n) == [k \in 1..n |-> Chunk(i, k)]

\* C33: while no writable stream is held, each non-empty chunk goes to the end
\* of the in-memory buffer, so that the buffer of a first session without a
\* disk target is all its chunks in order; onstop then assembles the download
\* from exactly the buffer, produces nothing when the buffer is empty, and
\* sets the state to IDLE.
C33_MemoryBuffer ==
  /\ [](started = 1 /\ writableStreamRef = 0 /\ sink[1] = "none"
          /\ rec[1] \in Active \cup {"stopping"}
        => chunksRef = ChunksOf(1, emitted[1]))
  /\ [][\A i \in Inv :
          /\ Emits(i) /\ writableStreamRef = 0
               => chunksRef' = Append(chunksRef, Chunk(i, emitted'[i]))
          /\ Stops(i) /\ writableStreamRef = 0
               => /\ artifact' = IF chunksRef' = <<>> THEN NoArtifact
                                 ELSE [of |-> i, kind |-> "blob", data |-> chunksRef']
                  /\ state' = "IDLE" /\ fin'[i] = "done"]_vars

\* a download assembled from two buffered chunks
C33_Witness ==
  /\ artifact.kind = "blob" /\ Len(artifact.data) = MaxChunks
  /\ state = "IDLE" /\ writableStreamRef = 0

\* a getUserMedia for the camera is refused in this step: a request settles
\* and there is no camera stream before or after
CameraDenied ==
  /\ cameraReq' # cameraReq /\ cameraReq' \subseteq cameraReq
  /\ cameraStream = "none" /\ cameraStream' = "none"

\* C37 (as stated): once toggleCamera, or initializeCamera called by
\* startRecording, has ended on a refused camera, showCamera is false,
\* cameraStream is null and the recording state is as it was.
C37_DeniedCameraDegrades ==
  [][CameraDenied => ~showCamera' /\ cameraStream' = "none" /\ state' = state]_vars

\* a click on the pause/resume button reaches pause() or resume(): the controls
\* are shown and the test of pauseRecording or resumeRecording passes
PauseOrResumeCalls ==
  ControlsShown /\ mediaRecorderRef # 0 /\ state \in {"RECORDING", "PAUSED"}

\* C38 (as stated): whenever pauseRecording or resumeRecording would call
\* pause() or resume(), the encoder in mediaRecorderRef is recording or
\* paused, also between the stop() of stopRecording and the end of onstop.
C38_NoPauseOnInactive ==
  PauseOrResumeCalls => rec[mediaRecorderRef] \in Active

\* C39 (as stated): while the state is IDLE no encoder is recording or paused
\* and the interval of the timer is not running; while it is RECORDING or
\* PAUSED mediaRecorderRef holds an encoder.
C39_StateMatchesEncoder ==
  /\ state = "IDLE" => (\A i \in Inv : rec[i] \notin Active) /\ timerRef = "off"
  /\ state \in {"RECORDING", "PAUSED"} => mediaRecorderRef # 0

\* every chunk of the sequence q was emitted by encoder i
OnlyFrom(i, q) == \A n \in 1..Len(q) : q[n][1] = i

\* C40 (as stated): what is finalized for a session holds only chunks of that
\* session's encoder, the in-memory buffer and the file of the session whose
\* encoder is recording hold no chunk of another one, and nothing is written
\* to a file once its close has been requested.
C40_SessionsIsolated ==
  /\ [](/\ artifact # NoArtifact => OnlyFrom(artifact.of, artifact.data)
        /\ \A j \in Inv : OnlyFrom(j, disk[j]) /\ OnlyFrom(j, wq[j])
        /\ \A i \in Inv : rec[i] \in Active /\ mediaRecorderRef = i
                            => OnlyFrom(i, chunksRef))
  /\ [][\A j \in Inv : closer[j] # 0 => disk'[j] = disk[j] /\ wq'[j] = wq[j]]_vars

====
